---- MODULE Spec2Model ----
(***************************************************************************)
(* Model of the animation engine of project-nexus                          *)
(* (src/src/utils/animations.ts) and of the way the views drive it        *)
(* (src/src/core/GalaxyView.ts, FileConstellation.ts, Timeline.ts).        *)
(*                                                                         *)
(* The host page is single threaded.  A handler (a user call, a frame      *)
(* callback) runs to completion; inside it AnimationManager.update walks   *)
(* the registry and calls Animation.update, which calls the user's         *)
(* callbacks, which may call back into the manager.  The model keeps the   *)
(* call stack of the running handler in `stack` and takes one step per     *)
(* callback invocation, so that what happens between a callback and the    *)
(* code after it is visible.  While a handler runs no other handler starts.*)
(***************************************************************************)
EXTENDS Integers, Sequences, FiniteSets, TLC

\* ------------------------------------------------------------------ bounds
MaxInst == 2        \* Animation objects constructed in one run
MaxTime == 1        \* last value of the clock (Date.now)
MaxFrames == 2      \* pending frame callbacks beyond which no handler is started that may add one

Names == {"a", "b"}                 \* registry keys passed to animate/stop
Durations == {1}                    \* durations passed to animate, in clock units

NoKey == ""                         \* an emptied entry of a Map's entry list
NoInst == 0
NullRaf == 0                        \* rafId === null

VARIABLES
  now,          \* Date.now(), read when a handler starts
  insts,        \* the Animation objects constructed so far, in order; Gone once unreachable
  animations,   \* AnimationManager.animations: the Map's entry list
  isRunning,    \* AnimationManager.isRunning
  rafId,        \* AnimationManager.rafId
  pending,      \* the page's animation frame callbacks requested for the next frame (handles)
  due,          \* the callbacks of the frame being run that have not run yet
  viewRaf,      \* handle of the view's render loop callback, NullRaf when none is requested
  stack,        \* call stack of the running handler, <<>> when none runs
  fired,        \* what the last step invoked: a callback of an instance, and whether it threw
  frameUpdated, \* instances whose update callback ran in the frame being run, {} between frames
  anim,         \* an Animation driven on its own, with its values: see "an Animation on its own"
  view,         \* a GalaxyView's camera and what moves it: see "GalaxyView"
  unit          \* an object of another class driven on its own: see "ParticleSystem"

vars == <<now, insts, animations, isRunning, rafId, pending, due, viewRaf, stack, fired,
          frameUpdated, anim, view, unit>>

\* ------------------------------------------------------------ Map (ES2015)
\* A Map keeps its entries in insertion order.  delete empties an entry in
\* place, set of a present key overwrites its value in place, set of an
\* absent key appends: so a forEach in progress skips what was deleted and
\* visits what was added.

Range(s) == {s[k] : k \in 1..Len(s)}

MapIndex(m, key) == CHOOSE k \in 1..Len(m) : m[k].key = key

MapHas(m, key) == \E k \in 1..Len(m) : m[k].key = key

MapGet(m, key) == IF MapHas(m, key) THEN m[MapIndex(m, key)].value ELSE NoInst

MapSet(m, key, value) ==
  IF MapHas(m, key)
    THEN [m EXCEPT ![MapIndex(m, key)].value = value]
    ELSE Append(m, [key |-> key, value |-> value])

MapDelete(m, key) ==
  IF MapHas(m, key)
    THEN [m EXCEPT ![MapIndex(m, key)] = [key |-> NoKey, value |-> NoInst]]
    ELSE m

MapClear(m) == [k \in 1..Len(m) |-> [key |-> NoKey, value |-> NoInst]]

MapSize(m) == Cardinality({k \in 1..Len(m) : m[k].key # NoKey})

MapValues(m) == {m[k].value : k \in {j \in 1..Len(m) : m[j].key # NoKey}}

\* The entry list without its emptied entries: the same Map once no forEach walks it.
RECURSIVE Compact(_)
Compact(m) ==
  IF m = <<>> THEN <<>>
  ELSE IF Head(m).key = NoKey THEN Compact(Tail(m))
  ELSE <<Head(m)>> \o Compact(Tail(m))

RECURSIVE DeleteAll(_, _)
DeleteAll(m, keys) ==
  IF keys = <<>> THEN m ELSE DeleteAll(MapDelete(m, Head(keys)), Tail(keys))

\* ------------------------------------------------------------------ numbers
\* A number is a fraction [n, d] in lowest terms with d > 0: the arithmetic
\* of the code carried out exactly.
RECURSIVE Gcd(_, _)
Gcd(a, b) == IF b = 0 THEN a ELSE Gcd(b, a % b)

Abs(x) == IF x < 0 THEN -x ELSE x

Frac(n, d) ==
  LET g == Gcd(Abs(n), Abs(d))
      sgn == IF d < 0 THEN -1 ELSE 1
  IN  [n |-> sgn * (n \div g), d |-> sgn * (d \div g)]

Whole(k) == [n |-> k, d |-> 1]

\* Common factors are divided out before a product is taken, which keeps
\* the intermediate values small.
RAdd(x, y) ==
  LET g == Gcd(x.d, y.d)
  IN  Frac(x.n * (y.d \div g) + y.n * (x.d \div g), (x.d \div g) * y.d)

RSub(x, y) == RAdd(x, [n |-> -y.n, d |-> y.d])

RMul(x, y) ==
  LET g1 == Gcd(Abs(x.n), y.d)
      g2 == Gcd(Abs(y.n), x.d)
  IN  Frac((x.n \div g1) * (y.n \div g2), (x.d \div g2) * (y.d \div g1))

RDiv(x, y) == RMul(x, Frac(y.d, y.n))

RLess(x, y) ==
  LET g == Gcd(x.d, y.d)
  IN  x.n * (y.d \div g) < y.n * (x.d \div g)

RLeq(x, y) == ~RLess(y, x)

RMin(x, y) == IF RLess(y, x) THEN y ELSE x
RMax(x, y) == IF RLess(x, y) THEN y ELSE x

\* ---------------------------------------------------------------- Animation
\* An instance's fields are the code's, and ended: the history of how the
\* instance first left the running states, which the code does not keep.
\*   "live"       it has not
\*   "completed"  update() found progress >= 1
\*   "halted"     stop() was called on the Animation itself
\*   "stopped"    AnimationManager.stop(name) or stopAll() stopped it
\*   "replaced"   animate() with its name stopped it
\*   "destroyed"  AnimationManager.destroy() stopped it

\* The registry key is the Map's; the instance's own id is read by getId() only.
NewAnimation(name, d, t) ==
  [alive |-> TRUE, duration |-> d, startTime |-> t, isRunning |-> FALSE,
   isPaused |-> FALSE, pausedTime |-> 0, ended |-> "live"]

\* An object that nothing refers to any more: its fields are out of reach.
\* Of its history what stays is whether the manager cancelled it.
Gone(a) ==
  [alive |-> FALSE, duration |-> 0, startTime |-> 0, isRunning |-> FALSE,
   isPaused |-> FALSE, pausedTime |-> 0,
   ended |-> IF a.ended \in {"stopped", "replaced"} THEN a.ended ELSE "gone"]

AnimationStart(a, t) == [a EXCEPT !.isRunning = TRUE, !.isPaused = FALSE, !.startTime = t]

AnimationPause(a, t) ==
  IF a.isRunning /\ ~a.isPaused
    THEN [a EXCEPT !.isPaused = TRUE, !.pausedTime = t - a.startTime]
    ELSE a

\* resume() that does not shift the time origin
AnimationResumeNoShift(a, t) ==
  IF a.isRunning /\ a.isPaused THEN [a EXCEPT !.isPaused = FALSE] ELSE a

AnimationResume(a, t) ==
  IF a.isRunning /\ a.isPaused
    THEN [a EXCEPT !.isPaused = FALSE, !.startTime = t - a.pausedTime]
    ELSE a

End(a, how) == IF a.ended = "live" THEN [a EXCEPT !.ended = how] ELSE a

AnimationStop(a) == End([a EXCEPT !.isRunning = FALSE, !.isPaused = FALSE], "halted")

\* update() line 245: the early return
Active(a) == a.isRunning /\ ~a.isPaused

\* progress >= 1 where progress = Math.min(elapsed / duration, 1):
\* x/0 is Infinity for x > 0, NaN for x = 0 (NaN >= 1 is false), and a
\* negative duration gives a quotient <= 0.
Finished(a, t) ==
  LET elapsed == t - a.startTime
  IN  IF a.duration > 0 THEN elapsed >= a.duration
      ELSE IF a.duration = 0 THEN elapsed > 0
      ELSE FALSE

\* ------------------------------------------------------------ the page
\* The state a call works on, as one record, so that a call made at top
\* level and the same call made from inside a callback are one operator.
Insts == 1..Len(insts)

\* The Animation objects something still refers to: the registry and the
\* calls on the stack.  (The views drop what animate returns; a caller gets
\* at an Animation through the public animations Map.)  The others are
\* garbage: the step after the one that dropped them the heap has let them go.
Roots == MapValues(animations) \cup {stack[k].inst : k \in 1..Len(stack)}

Cur ==
  [insts |-> [i \in Insts |-> IF i \in Roots THEN insts[i] ELSE Gone(insts[i])],
   animations |-> animations, isRunning |-> isRunning, rafId |-> rafId,
   pending |-> pending, due |-> due, viewRaf |-> viewRaf, stack |-> stack]

CanConstruct(S) == Len(S.insts) < MaxInst

Commit(S) ==
  /\ insts' = S.insts
  /\ animations' = S.animations
  /\ isRunning' = S.isRunning
  /\ rafId' = S.rafId
  /\ pending' = S.pending
  /\ due' = S.due
  /\ viewRaf' = S.viewRaf
  /\ stack' = S.stack

Without(s, h) == SelectSeq(s, LAMBDA x : x # h)

\* requestAnimationFrame returns a handle no pending callback has and that
\* no stale copy (rafId) names: the page never hands out a handle twice.
FreshHandle(S) ==
  CHOOSE h \in 1..(Len(S.pending) + Len(S.due) + 3) :
    /\ h \notin Range(S.pending) \cup Range(S.due) \cup {S.rafId, S.viewRaf}
    /\ \A g \in 1..(h - 1) : g \in Range(S.pending) \cup Range(S.due) \cup {S.rafId, S.viewRaf}

CancelAnimationFrame(S, h) ==
  [S EXCEPT !.pending = Without(@, h), !.due = Without(@, h)]

\* Stack frames.  A "tick" frame is a call of AnimationManager.update inside
\* its forEach: idx is the entry the walk examines next, toRemove its local
\* list, src who called (a frame callback "raf", the view's render loop
\* "view", AnimationManager.start "start").  An "update" frame is a call of
\* Animation.update between its update callback and its completion check:
\* name is the forEach key, finished the local progress >= 1.
TickFrame(src) ==
  [kind |-> "tick", src |-> src, idx |-> 1, toRemove |-> <<>>,
   name |-> NoKey, inst |-> NoInst, finished |-> FALSE]

UpdateFrame(name, i, fin) ==
  [kind |-> "update", src |-> "", idx |-> 0, toRemove |-> <<>>,
   name |-> name, inst |-> i, finished |-> fin]

Push(S, f) == [S EXCEPT !.stack = Append(@, f)]
Pop(S) == [S EXCEPT !.stack = SubSeq(@, 1, Len(@) - 1)]

\* ------------------------------------------------------- AnimationManager
\* The history of the instances that a manager call (from S0 to S) has
\* ended: how names the call.
Mark(S0, S, how) ==
  [S EXCEPT !.insts = [i \in 1..Len(@) |->
      IF S0.insts[i].ended = "live" /\ @[i].ended # "live"
        THEN [@[i] EXCEPT !.ended = how]
        ELSE @[i]]]

\* stop(name) that neither stops the animation nor unregisters it
ManagerStopMarksOnly(S, name) ==
  LET i == MapGet(S.animations, name)
  IN  IF i # NoInst
        THEN Mark(S, [S EXCEPT !.insts[i] = End(@, "halted")], "stopped")
        ELSE S

ManagerStop(S, name) ==
  LET i == MapGet(S.animations, name)
  IN  IF i # NoInst
        THEN Mark(S, [S EXCEPT !.insts[i] = AnimationStop(@),
                               !.animations = MapDelete(@, name)], "stopped")
        ELSE S

ManagerPause(S, name, t) ==
  LET i == MapGet(S.animations, name)
  IN  IF i # NoInst THEN [S EXCEPT !.insts[i] = AnimationPause(@, t)] ELSE S

ManagerResume(S, name, t) ==
  LET i == MapGet(S.animations, name)
  IN  IF i # NoInst THEN [S EXCEPT !.insts[i] = AnimationResume(@, t)] ELSE S

ManagerStopAll(S) ==
  Mark(S, [S EXCEPT !.insts = [i \in 1..Len(@) |->
                      IF i \in MapValues(S.animations) THEN AnimationStop(@[i]) ELSE @[i]],
                    !.animations = MapClear(@)], "stopped")

ManagerPauseAll(S, t) ==
  [S EXCEPT !.insts = [i \in 1..Len(@) |->
                         IF i \in MapValues(S.animations) THEN AnimationPause(@[i], t) ELSE @[i]]]

ManagerResumeAll(S, t) ==
  [S EXCEPT !.insts = [i \in 1..Len(@) |->
                         IF i \in MapValues(S.animations) THEN AnimationResume(@[i], t) ELSE @[i]]]

\* update(): the guard of line 424, then the forEach starts
ManagerUpdate(S, src) == IF ~S.isRunning THEN S ELSE Push(S, TickFrame(src))

ManagerStart(S) == ManagerUpdate([S EXCEPT !.isRunning = TRUE], "start")

\* animate() without lines 336-339: the instance registered under the name is not stopped
ManagerAnimateNoStop(S, name, d, t) ==
  LET i  == Len(S.insts) + 1
      S2 == [S EXCEPT !.insts = Append(@, AnimationStart(NewAnimation(name, d, t), t)),
                      !.animations = MapSet(@, name, i)]
  IN  IF ~S2.isRunning THEN ManagerStart(S2) ELSE S2

ManagerAnimate(S, name, d, t) ==
  LET S1 == IF MapHas(S.animations, name) THEN Mark(S, ManagerStop(S, name), "replaced") ELSE S
      i  == Len(S1.insts) + 1
      S2 == [S1 EXCEPT !.insts = Append(@, AnimationStart(NewAnimation(name, d, t), t)),
                       !.animations = MapSet(@, name, i)]
  IN  IF ~S2.isRunning THEN ManagerStart(S2) ELSE S2

\* this.rafId = requestAnimationFrame(() => this.update())
ManagerRequestFrame(S) ==
  LET h == FreshHandle(S)
  IN  [S EXCEPT !.rafId = h, !.pending = Append(@, h)]

\* update() after the forEach, with f the tick frame it ran in (lines 434-440)
ManagerUpdateEnd(S, f) ==
  LET S1 == [S EXCEPT !.animations = DeleteAll(@, f.toRemove)]
  IN  IF MapSize(S1.animations) > 0
        THEN ManagerRequestFrame(S1)
        ELSE [S1 EXCEPT !.isRunning = FALSE]

ManagerDestroy(S) ==
  LET S1 == Mark(S, ManagerStopAll(S), "destroyed")
      S2 == IF S1.rafId # NullRaf THEN CancelAnimationFrame(S1, S1.rafId) ELSE S1
  IN  [S2 EXCEPT !.isRunning = FALSE]

\* ------------------------------------------------------------- the views
\* startRenderLoop's closure: render(); animationManager.update();
\* requestAnimationFrame(animate).  This is its last statement.
ViewRequestFrame(S) ==
  LET h == FreshHandle(S)
  IN  [S EXCEPT !.viewRaf = h, !.pending = Append(@, h)]

\* ---------------------------------------------------------- callbacks
\* What a callback (onUpdate, onComplete) does is the caller's code: it does
\* nothing to the manager, throws, or makes one call on the manager or on
\* its own Animation.  Each invocation chooses.
NoAct == [op |-> "none", name |-> NoKey, d |-> 0]

CallbackActs(S) ==
  {NoAct, [op |-> "throw", name |-> NoKey, d |-> 0],
   [op |-> "stopSelf", name |-> NoKey, d |-> 0],
   [op |-> "stopAll", name |-> NoKey, d |-> 0],
   [op |-> "destroy", name |-> NoKey, d |-> 0]}
  \cup {[op |-> "stop", name |-> n, d |-> 0] : n \in Names}
  \cup (IF CanConstruct(S)
          THEN {[op |-> "animate", name |-> n, d |-> d] : n \in Names, d \in Durations}
          ELSE {})

\* The call a callback of instance i makes ("throw" is the caller's).
Call(S, act, i, t) ==
  CASE act.op = "stop" -> ManagerStop(S, act.name)
    [] act.op = "stopSelf" -> [S EXCEPT !.insts[i] = AnimationStop(@)]
    [] act.op = "stopAll" -> ManagerStopAll(S)
    [] act.op = "destroy" -> ManagerDestroy(S)
    [] act.op = "animate" -> ManagerAnimate(S, act.name, act.d, t)
    [] OTHER -> S

\* An exception of a callback: nothing on the stack catches it (update,
\* forEach, start, animate and the frame callbacks have no try), so the
\* handler ends where it is.
Unwind(S) == [S EXCEPT !.stack = <<>>]

\* A handler that has returned leaves no forEach behind.
HandlerEnd(S) == IF S.stack = <<>> THEN [S EXCEPT !.animations = Compact(@)] ELSE S

\* The step's result: the handler's state, and the frame's record of updates,
\* which ends with the frame.
Finish(S, updated) ==
  /\ Commit(HandlerEnd(S))
  /\ frameUpdated' = IF S.stack = <<>> /\ S.due = <<>> THEN {}
                      ELSE {i \in updated : S.insts[i].alive}
  /\ UNCHANGED <<anim, view, unit>>

Nothing == [cb |-> "none", inst |-> NoInst, threw |-> FALSE]

Idle == stack = <<>> /\ due = <<>>

Top == stack[Len(stack)]

InFrame == stack # <<>> /\ stack[1].src \in {"raf", "view"}

\* The forEach has a live entry e whose animation's update() gets past line 245.
Visits(S, e) == IF e.key = NoKey THEN FALSE ELSE Active(S.insts[e.value])

\* Animation.update up to and including the update callback (lines 245-254),
\* called by the forEach for entry e; the tick frame has moved on to the
\* next entry when the callback runs.
AnimationUpdateHead(S, e, t) ==
  LET f == S.stack[Len(S.stack)]
      S1 == [S EXCEPT !.stack[Len(S.stack)].idx = f.idx + 1]
  IN  IF ~Visits(S, e)
        THEN S1
        ELSE Push(S1, UpdateFrame(e.key, e.value, Finished(S.insts[e.value], t)))

\* Animation.update after the update callback (lines 256-264), up to the
\* completion callback; the forEach callback's push of the name is done
\* here, nothing else follows the completion callback.
AnimationUpdateTail(S, f) ==
  LET S1 == Pop(S)
  IN  IF f.finished
        THEN [S1 EXCEPT !.insts[f.inst] = End([@ EXCEPT !.isRunning = FALSE], "completed"),
                        !.stack[Len(S1.stack)].toRemove = Append(@, f.name)]
        ELSE S1

\* The manager's part of the state after construction.
NoAnim == [constructed |-> FALSE]
NoView == [constructed |-> FALSE]
NoUnit == [constructed |-> FALSE]

\* ------------------------------------------------------------- actions
Init ==
  /\ anim = NoAnim
  /\ view = NoView
  /\ unit = NoUnit
  /\ now = 0
  /\ insts = <<>>
  /\ animations = <<>>
  /\ isRunning = FALSE
  /\ rafId = NullRaf
  /\ due = <<>>
  /\ stack = <<>>
  /\ fired = Nothing
  /\ frameUpdated = {}
  \* a manager on its own, or the manager of a view whose constructor has
  \* called startRenderLoop
  /\ \/ viewRaf = NullRaf /\ pending = <<>>
     \/ viewRaf = 1 /\ pending = <<1>>

AdvanceClock ==
  /\ Idle
  /\ now < MaxTime
  /\ now' = now + 1
  /\ Finish(Cur, frameUpdated)
  /\ fired' = Nothing

\* animationManager.animate(name, {duration: d, ...}) from an event handler
Animate(n, d) ==
  /\ Idle
  /\ CanConstruct(Cur)
  /\ Len(pending) <= MaxFrames
  /\ Finish(ManagerAnimate(Cur, n, d, now), frameUpdated)
  /\ fired' = Nothing
  /\ UNCHANGED now

Stop(n) ==
  /\ Idle
  /\ Finish(ManagerStop(Cur, n), frameUpdated)
  /\ fired' = Nothing
  /\ UNCHANGED now

StopAll ==
  /\ Idle
  /\ Finish(ManagerStopAll(Cur), frameUpdated)
  /\ fired' = Nothing
  /\ UNCHANGED now

Pause(n) ==
  /\ Idle
  /\ Finish(ManagerPause(Cur, n, now), frameUpdated)
  /\ fired' = Nothing
  /\ UNCHANGED now

Resume(n) ==
  /\ Idle
  /\ Finish(ManagerResume(Cur, n, now), frameUpdated)
  /\ fired' = Nothing
  /\ UNCHANGED now

PauseAll ==
  /\ Idle
  /\ Finish(ManagerPauseAll(Cur, now), frameUpdated)
  /\ fired' = Nothing
  /\ UNCHANGED now

ResumeAll ==
  /\ Idle
  /\ Finish(ManagerResumeAll(Cur, now), frameUpdated)
  /\ fired' = Nothing
  /\ UNCHANGED now

\* animationManager.destroy(), also what a view's destroy() does to it
Destroy ==
  /\ Idle
  /\ Finish(ManagerDestroy(Cur), frameUpdated)
  /\ fired' = Nothing
  /\ UNCHANGED now

\* stop() and start() on a registered Animation
HandleStop(i) ==
  /\ Idle
  /\ i \in MapValues(animations)
  /\ Finish([Cur EXCEPT !.insts[i] = AnimationStop(@)], frameUpdated)
  /\ fired' = Nothing
  /\ UNCHANGED now

HandleStart(i) ==
  /\ Idle
  /\ i \in MapValues(animations)
  /\ Finish([Cur EXCEPT !.insts[i] = AnimationStart(@, now)], frameUpdated)
  /\ fired' = Nothing
  /\ UNCHANGED now

\* The page starts a frame: the callbacks requested so far are the ones it runs.
BeginFrame ==
  /\ Idle
  /\ pending # <<>>
  /\ Len(pending) <= MaxFrames
  /\ Finish([Cur EXCEPT !.due = pending, !.pending = <<>>], {})
  /\ fired' = Nothing
  /\ UNCHANGED now

\* The manager's frame callback: () => this.update()
RunManagerFrame ==
  /\ stack = <<>> /\ due # <<>>
  /\ Head(due) # viewRaf
  /\ Finish(ManagerUpdate([Cur EXCEPT !.due = Tail(@)], "raf"), frameUpdated)
  /\ fired' = Nothing
  /\ UNCHANGED now

\* The view's frame callback: render(); animationManager.update();
\* requestAnimationFrame(animate)
RunViewFrame ==
  /\ stack = <<>> /\ due # <<>>
  /\ Head(due) = viewRaf
  /\ LET S1 == ManagerUpdate([Cur EXCEPT !.due = Tail(@), !.viewRaf = NullRaf], "view")
     IN  Finish(IF S1.stack = <<>> THEN ViewRequestFrame(S1) ELSE S1, frameUpdated)
  /\ fired' = Nothing
  /\ UNCHANGED now

\* forEach reaches an emptied entry, or an animation whose update() returns
\* true at once (not running, or paused)
ForEachSkip ==
  /\ stack # <<>> /\ Top.kind = "tick" /\ Top.idx <= Len(animations)
  /\ LET e == animations[Top.idx]
     IN  /\ ~Visits(Cur, e)
         /\ Finish(AnimationUpdateHead(Cur, e, now), frameUpdated)
  /\ fired' = Nothing
  /\ UNCHANGED now

\* forEach reaches a running animation: update() runs up to its update callback
OnUpdate ==
  /\ stack # <<>> /\ Top.kind = "tick" /\ Top.idx <= Len(animations)
  /\ LET e == animations[Top.idx]
         S1 == AnimationUpdateHead(Cur, e, now)
     IN  /\ Visits(Cur, e)
         /\ \E act \in CallbackActs(S1) :
              /\ Finish(IF act.op = "throw" THEN Unwind(S1) ELSE Call(S1, act, e.value, now),
                        IF InFrame THEN frameUpdated \cup {e.value} ELSE frameUpdated)
              /\ fired' = [cb |-> "onUpdate", inst |-> e.value, threw |-> act.op = "throw"]
  /\ UNCHANGED now

\* update() goes on after its update callback: not finished, it returns true
UpdateReturn ==
  /\ stack # <<>> /\ Top.kind = "update" /\ ~Top.finished
  /\ Finish(AnimationUpdateTail(Cur, Top), frameUpdated)
  /\ fired' = Nothing
  /\ UNCHANGED now

\* update() goes on after its update callback: finished, it calls the
\* completion callback and returns false
OnComplete ==
  /\ stack # <<>> /\ Top.kind = "update" /\ Top.finished
  /\ LET S1 == AnimationUpdateTail(Cur, Top)
     IN  \E act \in CallbackActs(S1) :
           /\ Finish(IF act.op = "throw" THEN Unwind(S1) ELSE Call(S1, act, Top.inst, now),
                     frameUpdated)
           /\ fired' = [cb |-> "onComplete", inst |-> Top.inst, threw |-> act.op = "throw"]
  /\ UNCHANGED now

\* update() of the manager after its forEach; the caller goes on
TickEnd ==
  /\ stack # <<>> /\ Top.kind = "tick" /\ Top.idx > Len(animations)
  /\ LET f == Top
         S1 == ManagerUpdateEnd(Pop(Cur), f)
         S2 == IF S1.stack = <<>> /\ f.src = "view" THEN ViewRequestFrame(S1) ELSE S1
     IN  Finish(S2, frameUpdated)
  /\ fired' = Nothing
  /\ UNCHANGED now

\* The manager driven through animate, stop, stopAll and destroy, as the
\* views drive it, with arbitrary callbacks.
Next ==
  \/ AdvanceClock
  \/ \E n \in Names, d \in Durations : Animate(n, d)
  \/ \E n \in Names : Stop(n)
  \/ StopAll
  \/ Destroy
  \/ \E i \in Insts : HandleStop(i)
  \/ BeginFrame
  \/ RunManagerFrame
  \/ RunViewFrame
  \/ ForEachSkip
  \/ OnUpdate
  \/ UpdateReturn
  \/ OnComplete
  \/ TickEnd

Spec == Init /\ [][Next]_vars

\* The same with the rest of the public interface: pause and resume, and
\* start() on an Animation the caller holds.
NextLife ==
  \/ Next
  \/ \E n \in Names : Pause(n)
  \/ \E n \in Names : Resume(n)
  \/ PauseAll
  \/ ResumeAll
  \/ \E i \in Insts : HandleStart(i)

SpecLife == Init /\ [][NextLife]_vars

\* The manager driven as in Spec, and also with the durations the
\* constructor (lines 191-202) takes without a check: zero and negative.
NonPositive == {0, -1}

NextAnyDuration ==
  \/ Next
  \/ \E n \in Names, d \in NonPositive : Animate(n, d)

SpecAnyDuration == Init /\ [][NextAnyDuration]_vars

\* The manager with frames that keep being delivered and a clock that
\* advances: the page runs every frame it owes and every handler to its
\* end, and the clock goes one step beyond MaxTime, the time an animation
\* registered at MaxTime needs to run out.
LastTime == MaxTime + 1

LateClock ==
  /\ Idle
  /\ now = MaxTime
  /\ now' = LastTime
  /\ Finish(Cur, frameUpdated)
  /\ fired' = Nothing

NextFair ==
  \/ AdvanceClock
  \/ LateClock
  \/ \E n \in Names, d \in Durations : Animate(n, d)
  \/ BeginFrame
  \/ RunManagerFrame
  \/ RunViewFrame
  \/ ForEachSkip
  \/ OnUpdate
  \/ UpdateReturn
  \/ OnComplete
  \/ TickEnd

\* The clock is not held back by frames that keep coming (strong fairness:
\* it stands still only while a handler runs), the page starts the frame
\* it owes, and a handler it has started runs to its end: the code has no
\* loop that goes on for ever, so the page is idle again and again.
SpecFair ==
  /\ Init
  /\ [][NextFair]_vars
  /\ SF_vars(AdvanceClock \/ LateClock)
  /\ WF_vars(BeginFrame)
  /\ []<>Idle

\* ------------------------------------------------------------ easing
\* Easing.getEasingFunction(name) applied to t: an unknown name is linear.
linear(t) == t

easeInQuad(t) == RMul(t, t)

easeOutQuad(t) == RMul(t, RSub(Whole(2), t))

easeInOutCubic(t) ==
  IF RLess(t, Frac(1, 2))
    THEN RMul(Whole(4), RMul(t, RMul(t, t)))
    ELSE LET u == RSub(RMul(Whole(2), t), Whole(2))
         IN  RAdd(RMul(RSub(t, Whole(1)), RMul(u, u)), Whole(1))

getEasingFunction(name, t) ==
  CASE name = "easeInQuad" -> easeInQuad(t)
    [] name = "easeOutQuad" -> easeOutQuad(t)
    [] name = "easeInOutCubic" -> easeInOutCubic(t)
    [] OTHER -> linear(t)

\* ------------------------------------------------------------ values
\* What from and to hold, by typeof and Array.isArray: a number, an array,
\* an object with its keys (a function on them), undefined.
Num(r) == [tag |-> "number", v |-> r]
Arr(s) == [tag |-> "array", v |-> s]
Obj(f) == [tag |-> "object", v |-> f]
Undefined == [tag |-> "undefined", v |-> <<>>]

\* typeof x === 'object' (true of an array too)
IsObject(x) == x.tag \in {"array", "object"}

\* The keys of x that `key in to` can find: an array's are its indices,
\* which no object here has.
Keys(x) == IF x.tag = "object" THEN DOMAIN x.v ELSE {}

RECURSIVE interpolate(_, _, _)
interpolate(from, to, progress) ==
  IF from.tag = "number" /\ to.tag = "number"
    THEN Num(RAdd(from.v, RMul(RSub(to.v, from.v), progress)))
  ELSE IF from.tag = "array" /\ to.tag = "array"
    THEN Arr([k \in 1..Len(from.v) |->
                interpolate(from.v[k], IF k <= Len(to.v) THEN to.v[k] ELSE Undefined, progress)])
  ELSE IF IsObject(from) /\ IsObject(to)
    THEN Obj([key \in Keys(from) \cap Keys(to) |->
                interpolate(from.v[key], to.v[key], progress)])
  ELSE to

\* ------------------------------------------------- an Animation on its own
\* new Animation(config), then start, pause, resume, stop and update called
\* on it as the clock goes: anim is
\*   self   the instance: the fields of an Animation, with from, to, easing
\*          and whether it has a completion callback
\*   clock  Date.now()
\*   calls  the callbacks the last call invoked, in order, with their argument
\*   ret    what the last update() returned
\*   ran    the time the instance has spent running and not paused since
\*          its last start(): the elapsed time it ought to see
NewTween(from, to, d, easing, onComplete, t) ==
  [alive |-> TRUE, duration |-> d, startTime |-> t, isRunning |-> FALSE,
   isPaused |-> FALSE, pausedTime |-> 0, ended |-> "live",
   from |-> from, to |-> to, easing |-> easing, onComplete |-> onComplete]

\* progress without Math.min
ProgressUnclamped(a, t) == Frac(t - a.startTime, a.duration)

\* lines 249-250
Progress(a, t) == RMin(Frac(t - a.startTime, a.duration), Whole(1))

\* update() without lines 256-262: it never completes
AnimationUpdateNoComplete(a, t) ==
  IF ~Active(a)
    THEN [self |-> a, calls |-> <<>>, ret |-> TRUE]
    ELSE [self |-> a,
          calls |-> <<[cb |-> "onUpdate",
                       value |-> interpolate(a.from, a.to,
                                             getEasingFunction(a.easing, Progress(a, t)))]>>,
          ret |-> TRUE]

\* update() with callbacks that do nothing but take their argument
AnimationUpdate(a, t) ==
  IF ~Active(a)
    THEN [self |-> a, calls |-> <<>>, ret |-> TRUE]
    ELSE LET progress == Progress(a, t)
             value == interpolate(a.from, a.to, getEasingFunction(a.easing, progress))
             onUpdate == <<[cb |-> "onUpdate", value |-> value]>>
         IN  IF RLeq(Whole(1), progress)
               THEN [self |-> End([a EXCEPT !.isRunning = FALSE], "completed"),
                     calls |-> IF a.onComplete
                                 THEN onUpdate \o <<[cb |-> "onComplete", value |-> Undefined]>>
                                 ELSE onUpdate,
                     ret |-> FALSE]
               ELSE [self |-> a, calls |-> onUpdate, ret |-> TRUE]

\* The from and to values an animation is constructed with: scalars, arrays
\* and objects of one shape, and the shapes that do not match (a number
\* against an object, arrays of different lengths, and the key sets of
\* GalaxyView.focusProject: from the camera, to {x, y, zoom}).
Values ==
  << [from |-> Num(Whole(0)), to |-> Num(Whole(100))],
     [from |-> Num(Frac(5, 2)), to |-> Num(Whole(-1))],
     [from |-> Arr(<<Num(Whole(0)), Num(Whole(10))>>),
      to |-> Arr(<<Num(Whole(4)), Num(Whole(20))>>)],
     [from |-> Obj([x |-> Num(Whole(0)), y |-> Num(Whole(8))]),
      to |-> Obj([x |-> Num(Whole(40)), y |-> Num(Whole(-8))])],
     [from |-> Num(Whole(0)), to |-> Obj([x |-> Num(Whole(1))])],
     [from |-> Arr(<<Num(Whole(0)), Num(Whole(10))>>), to |-> Arr(<<Num(Whole(4))>>)],
     [from |-> Obj([x |-> Num(Whole(0)), y |-> Num(Whole(0)), zoom |-> Num(Whole(1)),
                    rotation |-> Num(Whole(0))]),
      to |-> Obj([x |-> Num(Whole(40)), y |-> Num(Whole(30)), zoom |-> Num(Whole(2))])] >>

MaxClock == 6                       \* last value of the clock, in quarters of a second

InitAnimation ==
  /\ \E k \in 1..Len(Values), d \in {500, 1000}, oc \in BOOLEAN,
        easing \in {"linear", "easeInQuad", "easeOutQuad", "easeInOutCubic"} :
       anim = [constructed |-> TRUE,
               self |-> NewTween(Values[k].from, Values[k].to, d, easing, oc, 0),
               clock |-> 0, calls |-> <<>>, ret |-> TRUE, ran |-> 0]
  /\ view = NoView
  /\ unit = NoUnit
  /\ now = 0
  /\ insts = <<>>
  /\ animations = <<>>
  /\ isRunning = FALSE
  /\ rafId = NullRaf
  /\ pending = <<>>
  /\ due = <<>>
  /\ viewRaf = NullRaf
  /\ stack = <<>>
  /\ fired = Nothing
  /\ frameUpdated = {}

ManagerIdle ==
  UNCHANGED <<now, insts, animations, isRunning, rafId, pending, due, viewRaf, stack, fired,
              frameUpdated>>

\* Time passes between two calls.
AnimClock(dt) ==
  /\ anim.clock + dt <= 250 * MaxClock
  /\ anim' = [anim EXCEPT !.clock = @ + dt, !.calls = <<>>,
                          !.ran = IF Active(anim.self) THEN @ + dt ELSE @]
  /\ UNCHANGED <<view, unit>> /\ ManagerIdle

AnimStart ==
  /\ anim' = [anim EXCEPT !.self = AnimationStart(@, anim.clock), !.calls = <<>>, !.ran = 0]
  /\ UNCHANGED <<view, unit>> /\ ManagerIdle

AnimPause ==
  /\ anim' = [anim EXCEPT !.self = AnimationPause(@, anim.clock), !.calls = <<>>]
  /\ UNCHANGED <<view, unit>> /\ ManagerIdle

AnimResume ==
  /\ anim' = [anim EXCEPT !.self = AnimationResume(@, anim.clock), !.calls = <<>>]
  /\ UNCHANGED <<view, unit>> /\ ManagerIdle

AnimStop ==
  /\ anim' = [anim EXCEPT !.self = AnimationStop(@), !.calls = <<>>]
  /\ UNCHANGED <<view, unit>> /\ ManagerIdle

AnimUpdate ==
  /\ LET r == AnimationUpdate(anim.self, anim.clock)
     IN  anim' = [anim EXCEPT !.self = r.self, !.calls = r.calls, !.ret = r.ret]
  /\ UNCHANGED <<view, unit>> /\ ManagerIdle

NextAnimation ==
  \/ \E dt \in {250, 500} : AnimClock(dt)
  \/ AnimStart
  \/ AnimPause
  \/ AnimResume
  \/ AnimStop
  \/ AnimUpdate

SpecAnimation == InitAnimation /\ [][NextAnimation]_vars

\* ------------------------------------------------------------ GalaxyView
\* The camera of a GalaxyView and what reads and writes it.  The camera is
\* an object {x, y, zoom, rotation}; rotation is counted in quarter turns, so
\* that the canvas rotates a point exactly.
MIN_ZOOM == Frac(1, 10)
MAX_ZOOM == Whole(5)

\* canvas.width and canvas.height
Width == 800
Height == 600

Point(x, y) == [x |-> x, y |-> y]

\* o[key] = r
Put(o, key, r) ==
  Obj([k \in DOMAIN o.v \cup {key} |-> IF k = key THEN Num(r) ELSE o.v[k]])

getCameraState(camera) == Obj([k \in DOMAIN camera.v |-> camera.v[k]])

\* the zoom as it is asked for
ClampZoomNot(zoom) == zoom

\* Math.max(this.MIN_ZOOM, Math.min(this.MAX_ZOOM, zoom))
ClampZoom(zoom) == RMax(MIN_ZOOM, RMin(MAX_ZOOM, zoom))

setCameraState(camera, req) ==
  LET c1 == IF "zoom" \in Keys(req) THEN Put(camera, "zoom", ClampZoom(req.v["zoom"].v)) ELSE camera
      c2 == IF "x" \in Keys(req) THEN Put(c1, "x", req.v["x"].v) ELSE c1
      c3 == IF "y" \in Keys(req) THEN Put(c2, "y", req.v["y"].v) ELSE c2
  IN  IF "rotation" \in Keys(req) THEN Put(c3, "rotation", req.v["rotation"].v) ELSE c3

worldToScreen(camera, point) ==
  Point(RAdd(RMul(RSub(point.x, camera.v["x"].v), camera.v["zoom"].v), Frac(Width, 2)),
        RAdd(RMul(RSub(point.y, camera.v["y"].v), camera.v["zoom"].v), Frac(Height, 2)))

screenToWorld(camera, point) ==
  Point(RAdd(RDiv(RSub(point.x, Frac(Width, 2)), camera.v["zoom"].v), camera.v["x"].v),
        RAdd(RDiv(RSub(point.y, Frac(Height, 2)), camera.v["zoom"].v), camera.v["y"].v))

\* handleWheel that sets the zoom and leaves the camera where it is
handleWheelNoCompensation(camera, deltaY, client) ==
  LET newZoom == RMul(camera.v["zoom"].v, IF deltaY > 0 THEN Frac(9, 10) ELSE Frac(11, 10))
  IN  IF RLeq(MIN_ZOOM, newZoom) /\ RLeq(newZoom, MAX_ZOOM)
        THEN Put(camera, "zoom", newZoom)
        ELSE camera

handleWheel(camera, deltaY, client) ==
  LET zoomDelta == IF deltaY > 0 THEN Frac(9, 10) ELSE Frac(11, 10)
      newZoom == RMul(camera.v["zoom"].v, zoomDelta)
  IN  IF RLeq(MIN_ZOOM, newZoom) /\ RLeq(newZoom, MAX_ZOOM)
        THEN LET mouseWorld == screenToWorld(camera, client)
                 zoomed == Put(camera, "zoom", newZoom)
                 mouseWorldAfter == screenToWorld(zoomed, client)
             IN  Put(Put(zoomed, "x", RAdd(camera.v["x"].v, RSub(mouseWorld.x, mouseWorldAfter.x))),
                     "y", RAdd(camera.v["y"].v, RSub(mouseWorld.y, mouseWorldAfter.y)))
        ELSE camera

handleKeyDown(camera, key) ==
  LET zoom == camera.v["zoom"].v
      step == RDiv(Whole(50), zoom)
  IN  CASE key \in {"+", "="} -> Put(camera, "zoom", RMin(MAX_ZOOM, RMul(zoom, Frac(11, 10))))
        [] key \in {"-", "_"} -> Put(camera, "zoom", RMax(MIN_ZOOM, RMul(zoom, Frac(9, 10))))
        [] key = "ArrowUp" -> Put(camera, "y", RSub(camera.v["y"].v, step))
        [] key = "ArrowDown" -> Put(camera, "y", RAdd(camera.v["y"].v, step))
        [] key = "ArrowLeft" -> Put(camera, "x", RSub(camera.v["x"].v, step))
        [] key = "ArrowRight" -> Put(camera, "x", RAdd(camera.v["x"].v, step))
        [] OTHER -> camera

\* ctx.translate(width / 2, height / 2); ctx.scale(zoom, zoom);
\* ctx.rotate(rotation); ctx.translate(-x, -y): where render() draws the
\* world point.  rotate() of a camera without rotation (undefined, so NaN)
\* does nothing.
Rotate(turns, x, y) ==
  CASE turns % 4 = 0 -> Point(x, y)
    [] turns % 4 = 1 -> Point(RSub(Whole(0), y), x)
    [] turns % 4 = 2 -> Point(RSub(Whole(0), x), RSub(Whole(0), y))
    [] turns % 4 = 3 -> Point(y, RSub(Whole(0), x))

render(camera, point) ==
  LET turns == IF "rotation" \in Keys(camera) THEN camera.v["rotation"].v.n ELSE 0
      r == Rotate(turns, RSub(point.x, camera.v["x"].v), RSub(point.y, camera.v["y"].v))
  IN  Point(RAdd(RMul(r.x, camera.v["zoom"].v), Frac(Width, 2)),
            RAdd(RMul(r.y, camera.v["zoom"].v), Frac(Height, 2)))

\* The projects of the galaxy in the order of the Map, each where
\* calculateProjectPosition puts it at the time of the call.
Projects ==
  << [id |-> "p1", at |-> Point(Whole(200), Whole(0)), size |-> "large"],
     [id |-> "p2", at |-> Point(Whole(192), Whole(56)), size |-> "large"],
     [id |-> "p3", at |-> Point(Whole(0), Whole(350)), size |-> "small"],
     [id |-> "p4", at |-> Point(Whole(-300), Whole(-400)), size |-> "none"] >>

ProjectsGet(id) == Projects[CHOOSE k \in 1..Len(Projects) : Projects[k].id = id]

getProjectSize(project) ==
  CASE project.size = "small" -> 20
    [] project.size = "medium" -> 30
    [] project.size = "large" -> 40
    [] OTHER -> 30

\* a / b <= c / d for whole a, c >= 0 and b, d > 0, by their continued
\* fractions: no product is formed
RECURSIVE QuotLeq(_, _, _, _)
QuotLeq(a, b, c, d) ==
  IF a \div b # c \div d THEN a \div b < c \div d
  ELSE IF a % b = 0 THEN TRUE
  ELSE IF c % d = 0 THEN FALSE
  ELSE QuotLeq(d, c % d, b, a % b)

\* Math.sqrt(dx^2 + dy^2) <= size, exactly: with dx = nx / D, dy = ny / D and
\* size = S / D it is  nx^2 <= (S - ny) * (S + ny),  compared as
\* nx / (S + ny) <= (S - ny) / nx
Within(position, centre, size) ==
  LET dx == RSub(position.x, centre.x)
      dy == RSub(position.y, centre.y)
      g == Gcd(dx.d, dy.d)
      l == (dx.d \div g) * dy.d
      D == (l \div Gcd(l, size.d)) * size.d
      nx == Abs(dx.n) * (D \div dx.d)
      ny == Abs(dy.n) * (D \div dy.d)
      S == size.n * (D \div size.d)
  IN  /\ S >= 0 /\ ~RLess(size, dx) /\ ~RLess(dx, RSub(Whole(0), size))
      /\ ~RLess(size, dy) /\ ~RLess(dy, RSub(Whole(0), size))
      /\ nx = 0 \/ QuotLeq(nx, S + ny, S - ny, nx)

\* the project that matches last
RECURSIVE getProjectAtPositionLast(_, _)
getProjectAtPositionLast(projects, position) ==
  IF projects = <<>>
    THEN "null"
    ELSE LET later == getProjectAtPositionLast(Tail(projects), position)
         IN  IF later # "null"
               THEN later
               ELSE IF Within(position, Head(projects).at, Whole(getProjectSize(Head(projects))))
                      THEN Head(projects).id
                      ELSE "null"

\* for (const [, project] of this.projects): the id of the project returned
RECURSIVE getProjectAtPosition(_, _)
getProjectAtPosition(projects, position) ==
  IF projects = <<>>
    THEN "null"
    ELSE IF Within(position, Head(projects).at, Whole(getProjectSize(Head(projects))))
           THEN Head(projects).id
           ELSE getProjectAtPosition(Tail(projects), position)

\* A GalaxyView: view is
\*   camera          this.camera
\*   pinchDistance   the distance of the last two-finger move, or undefined
\*   mouse           this.mouse: down, startX, startY
\*   hoveredProject  the id of the project under the pointer, or "null"
\*   move            the animation registered as 'cameraMove', or NoMove
\*   aliased         move.from is the object this.camera refers to: what is
\*                   written to the camera's fields is written to from
\*   isRunning       the manager's flag
\*   clock           Date.now()
\*   ops             the number of calls and events so far
\*   last            the last call or event, with its arguments
NoMove == [alive |-> FALSE]

NewView ==
  [constructed |-> TRUE, camera |-> Obj([x |-> Num(Whole(0)), y |-> Num(Whole(0)), zoom |-> Num(Whole(1)),
                   rotation |-> Num(Whole(0))]),
   pinchDistance |-> Undefined, mouse |-> [down |-> FALSE, startX |-> 0, startY |-> 0],
   hoveredProject |-> "null", move |-> NoMove, aliased |-> FALSE, isRunning |-> FALSE,
   clock |-> 0, ops |-> 0, last |-> [op |-> "new", arg |-> <<>>]]

\* A write to the fields of the object this.camera refers to.
WithCamera(v, camera) ==
  [v EXCEPT !.camera = camera,
            !.move = IF v.aliased /\ v.move # NoMove THEN [@ EXCEPT !.from = camera] ELSE @]

\* AnimationManager.update() with 'cameraMove' the only animation: its
\* onUpdate is  this.camera = value
ViewManagerUpdate(v) ==
  IF ~v.isRunning
    THEN v
  ELSE IF v.move = NoMove
    THEN [v EXCEPT !.isRunning = FALSE]
  ELSE LET r == AnimationUpdate(v.move, v.clock)
           w == IF r.calls = <<>>
                  THEN v
                  ELSE [v EXCEPT !.camera = r.calls[1].value, !.aliased = FALSE]
       IN  IF r.ret
             THEN [w EXCEPT !.move = r.self]
             ELSE [w EXCEPT !.move = NoMove, !.isRunning = FALSE]

\* animationManager.animate('cameraMove', {from, to, duration: 800,
\* easing: 'easeInOutCubic', onUpdate}) with from the camera itself
ViewManagerAnimate(v, to) ==
  LET animation == AnimationStart(
                     NewTween(v.camera, to, 800, "easeInOutCubic", FALSE, v.clock), v.clock)
      w == [v EXCEPT !.move = animation, !.aliased = TRUE]
  IN  IF ~v.isRunning
        THEN ViewManagerUpdate([w EXCEPT !.isRunning = TRUE])
        ELSE w

\* focusProject of a project of the galaxy (any other id throws)
focusProject(v, projectId, animated) ==
  LET position == worldToScreen(v.camera, ProjectsGet(projectId).at)
  IN  IF animated
        THEN ViewManagerAnimate(v, Obj([x |-> Num(position.x), y |-> Num(position.y),
                                        zoom |-> Num(Whole(2))]))
        ELSE WithCamera(v, Put(Put(Put(v.camera, "x", position.x), "y", position.y),
                               "zoom", Whole(2)))

\* The projectSelected event it dispatches changes nothing of the view.
handleMouseDown(v, client) ==
  [v EXCEPT !.mouse = [down |-> TRUE, startX |-> client.x, startY |-> client.y]]

handleMouseMove(v, client) ==
  IF v.mouse.down
    THEN LET dx == Whole(client.x - v.mouse.startX)
             dy == Whole(client.y - v.mouse.startY)
             zoom == v.camera.v["zoom"].v
             moved == Put(Put(v.camera, "x", RSub(v.camera.v["x"].v, RDiv(dx, zoom))),
                          "y", RSub(v.camera.v["y"].v, RDiv(dy, zoom)))
         IN  [WithCamera(v, moved) EXCEPT !.mouse.startX = client.x, !.mouse.startY = client.y]
    ELSE [v EXCEPT !.hoveredProject =
            getProjectAtPosition(Projects,
                                 screenToWorld(v.camera, Point(Whole(client.x), Whole(client.y))))]

handleMouseUp(v) == [v EXCEPT !.mouse.down = FALSE]

\* Math.hypot(dx, dy) of touches that are a whole number of pixels apart
Hypot(dx, dy) == CHOOSE r \in 0..(Abs(dx) + Abs(dy)) : r * r = dx * dx + dy * dy

handleTouchMove(v, touches) ==
  IF Len(touches) = 1
    THEN handleMouseMove(v, touches[1])
  ELSE IF Len(touches) = 2
    THEN LET distance == Whole(Hypot(touches[2].x - touches[1].x, touches[2].y - touches[1].y))
             pinched == IF v.pinchDistance # Undefined
                          THEN LET scale == RDiv(distance, v.pinchDistance.v)
                               IN  WithCamera(v, Put(v.camera, "zoom",
                                     ClampZoom(RMul(v.camera.v["zoom"].v, scale))))
                          ELSE v
         IN  [pinched EXCEPT !.pinchDistance = Num(distance)]
  ELSE v

\* handleTouchEnd with so many touches left
handleTouchEnd(v, touches) ==
  IF touches = 0
    THEN [handleMouseUp(v) EXCEPT !.pinchDistance = Undefined]
    ELSE v

\* What the page and the user ask of the view.
Requests ==
  << Obj([zoom |-> Num(Frac(1, 20)), rotation |-> Num(Whole(1))]),
     Obj([zoom |-> Num(Whole(7))]),
     Obj([x |-> Num(Whole(100)), y |-> Num(Whole(-50))]) >>

TouchPairs ==
  << <<Point(380, 300), Point(420, 300)>>,
     <<Point(0, 0), Point(800, 600)>> >>
MaxOps == 3                         \* calls and events in a run
FrameTime == 400                    \* ms from one frame to the next

InitView ==
  /\ view = NewView
  /\ anim = NoAnim
  /\ unit = NoUnit
  /\ now = 0
  /\ insts = <<>>
  /\ animations = <<>>
  /\ isRunning = FALSE
  /\ rafId = NullRaf
  /\ pending = <<>>
  /\ due = <<>>
  /\ viewRaf = NullRaf
  /\ stack = <<>>
  /\ fired = Nothing
  /\ frameUpdated = {}

\* One call or event: the view after it, counted and recorded.
Event(op, arg, v) ==
  /\ view.ops < MaxOps
  /\ view' = [v EXCEPT !.ops = @ + 1, !.last = [op |-> op, arg |-> arg]]
  /\ UNCHANGED <<anim, unit>> /\ ManagerIdle

SetCameraState(k) ==
  Event("setCameraState", <<k>>, WithCamera(view, setCameraState(view.camera, Requests[k])))

FocusProject(id, animated) ==
  Event("focusProject", <<id, animated>>, focusProject(view, id, animated))

Wheel(deltaY, client) ==
  Event("wheel", <<deltaY, client>>,
        WithCamera(view, handleWheel(view.camera, deltaY,
                                     Point(Whole(client.x), Whole(client.y)))))

KeyDown(key) ==
  Event("keydown", <<key>>, WithCamera(view, handleKeyDown(view.camera, key)))

MouseDown(client) == Event("mousedown", <<client>>, handleMouseDown(view, client))

MouseMove(client) == Event("mousemove", <<client>>, handleMouseMove(view, client))

MouseUp == Event("mouseup", <<>>, handleMouseUp(view))

TouchMove(k) == Event("touchmove", <<k>>, handleTouchMove(view, TouchPairs[k]))

TouchEnd(touches) == Event("touchend", <<touches>>, handleTouchEnd(view, touches))

\* The next frame of the render loop: animationManager.update() (line 671).
Frame ==
  /\ view.clock + FrameTime <= 250 * MaxClock
  /\ view' = ViewManagerUpdate([view EXCEPT !.clock = @ + FrameTime])
  /\ UNCHANGED <<anim, unit>> /\ ManagerIdle

NextView ==
  \/ \E k \in 1..Len(Requests) : SetCameraState(k)
  \/ \E animated \in BOOLEAN : FocusProject("p1", animated)
  \/ \E deltaY \in {-100, 100}, client \in {Point(400, 300), Point(620, 190)} :
       Wheel(deltaY, client)
  \/ \E key \in {"+", "_", "ArrowLeft"} : KeyDown(key)
  \/ MouseDown(Point(400, 300))
  \/ \E client \in {Point(600, 300), Point(640, 300), Point(596, 328)} : MouseMove(client)
  \/ MouseUp
  \/ \E k \in 1..Len(TouchPairs) : TouchMove(k)
  \/ TouchEnd(0)
  \/ Frame

SpecView == InitView /\ [][NextView]_vars


\* ------------------------------------------------------ SpringAnimation
\* config.x || dflt
OrDefault(x, dflt) == IF x.n = 0 THEN dflt ELSE x

\* new SpringAnimation(config); returned is what the last update returned
NewSpringAnimation(config) ==
  [constructed |-> TRUE,
   value |-> OrDefault(config.from, Whole(0)),
   velocity |-> OrDefault(config.velocity, Whole(0)),
   target |-> OrDefault(config.to, Whole(0)),
   stiffness |-> OrDefault(config.stiffness, Whole(170)),
   damping |-> OrDefault(config.damping, Whole(26)),
   mass |-> OrDefault(config.mass, Whole(1)),
   threshold |-> Frac(1, 1000),
   deltaTime |-> config.deltaTime,
   returned |-> "none"]

\* update(deltaTime)
SpringAnimationUpdate(s, deltaTime) ==
  LET force == RMul(RSub(Whole(0), s.stiffness), RSub(s.value, s.target))
      damping == RMul(RSub(Whole(0), s.damping), s.velocity)
      acceleration == RDiv(RAdd(force, damping), s.mass)
      velocity == RAdd(s.velocity, RMul(acceleration, deltaTime))
      value == RAdd(s.value, RMul(velocity, deltaTime))
      Magnitude(r) == IF RLess(r, Whole(0)) THEN RSub(Whole(0), r) ELSE r
      isComplete == /\ RLess(Magnitude(velocity), s.threshold)
                    /\ RLess(Magnitude(RSub(value, s.target)), s.threshold)
  IN  IF isComplete
        THEN [s EXCEPT !.value = s.target, !.velocity = Whole(0), !.returned = "false"]
        ELSE [s EXCEPT !.value = value, !.velocity = velocity, !.returned = "true"]

\* The springs of the runs: stiffness, damping, mass, and the step the
\* caller's loop passes to update.
Springs ==
  {[stiffness |-> Whole(c[1]), damping |-> Whole(c[2]), mass |-> Whole(c[3]),
    deltaTime |-> Whole(c[4]), from |-> Whole(from), to |-> Whole(to), velocity |-> Whole(velocity)] :
     c \in {<<1, 1, 1, 1>>, <<2, 2, 2, 1>>, <<2, 1, 1, 1>>, <<1, 1, 2, 2>>},
     from \in -MaxOps..MaxOps, to \in {0, 1}, velocity \in {-1, 0, 1}}

InitSpring ==
  /\ anim \in {NewSpringAnimation(config) : config \in Springs}
  /\ view = NoView
  /\ unit = NoUnit
  /\ now = 0
  /\ insts = <<>>
  /\ animations = <<>>
  /\ isRunning = FALSE
  /\ rafId = NullRaf
  /\ pending = <<>>
  /\ due = <<>>
  /\ viewRaf = NullRaf
  /\ stack = <<>>
  /\ fired = Nothing
  /\ frameUpdated = {}

\* update(deltaTime) on every spring the runs come to: the springs of
\* Springs with any value and velocity of the range (computed once)
SpringUpdates ==
  LET states == {[NewSpringAnimation(config) EXCEPT !.value = Whole(value),
                                                     !.velocity = Whole(velocity),
                                                     !.returned = returned] :
                   config \in Springs, value \in -(MaxOps + 2)..(MaxOps + 2),
                   velocity \in -(2 * MaxOps + 2)..(2 * MaxOps + 2),
                   returned \in {"none", "true", "false"}}
  IN  [s \in states |-> SpringAnimationUpdate(s, s.deltaTime)]

\* The caller's loop: one more update(deltaTime)
SpringUpdate ==
  /\ anim' = SpringUpdates[anim]
  /\ UNCHANGED <<view, unit>> /\ ManagerIdle

\* The caller goes on stepping the spring.
SpecSpring == InitSpring /\ [][SpringUpdate]_vars /\ WF_vars(SpringUpdate)

\* ------------------------------------------------------- ParticleSystem
\* A ParticleSystem on its own: unit is
\*   maxParticles   this.maxParticles
\*   particles      this.particles, of each Particle its life (all that
\*                  isAlive reads)
\*   emitters       this.emitters, of each ParticleEmitter isActive, rate,
\*                  accumulator and the life its config gives its particles
\* Times are whole numbers of a time unit, rates are fractions per unit.
MaxEmitters == 2

NewParticleSystem(maxParticles) ==
  [constructed |-> TRUE, maxParticles |-> IF maxParticles = 0 THEN 1000 ELSE maxParticles,
   particles |-> <<>>, emitters |-> <<>>]

NewParticleEmitter(rate, life) ==
  [isActive |-> TRUE, rate |-> OrDefault(rate, Whole(10)), accumulator |-> Whole(0),
   life |-> IF life = 0 THEN 1 ELSE life]

\* ParticleEmitter.emit(deltaTime): the emitter after it and the lives of
\* the particles it returns, one for each whole unit of the accumulator
emit(emitter, deltaTime) ==
  LET accumulator == RAdd(emitter.accumulator, RMul(Whole(deltaTime), emitter.rate))
      count == accumulator.n \div accumulator.d
  IN  [self |-> [emitter EXCEPT !.accumulator = RSub(accumulator, Whole(count))],
       particles |-> [k \in 1..count |-> emitter.life]]

\* The forEach of update over the emitters from the k-th on (lines 556-561)
RECURSIVE EmitAll(_, _, _)
EmitAll(sys, k, deltaTime) ==
  IF k > Len(sys.emitters)
    THEN sys
  ELSE IF sys.emitters[k].isActive /\ Len(sys.particles) < sys.maxParticles
    THEN LET r == emit(sys.emitters[k], deltaTime)
         IN  EmitAll([sys EXCEPT !.emitters[k] = r.self, !.particles = @ \o r.particles],
                     k + 1, deltaTime)
  ELSE EmitAll(sys, k + 1, deltaTime)

\* ParticleSystem.update(deltaTime): Particle.update takes deltaTime off
\* the life, isAlive is life > 0
ParticleSystemUpdate(sys, deltaTime) ==
  LET emitted == EmitAll(sys, 1, deltaTime)
      updated == [k \in 1..Len(emitted.particles) |-> emitted.particles[k] - deltaTime]
  IN  [emitted EXCEPT !.particles = SelectSeq(updated, LAMBDA life : life > 0)]

InitParticles ==
  /\ unit \in {NewParticleSystem(maxParticles) : maxParticles \in {2, 3}}
  /\ anim = NoAnim
  /\ view = NoView
  /\ now = 0
  /\ insts = <<>>
  /\ animations = <<>>
  /\ isRunning = FALSE
  /\ rafId = NullRaf
  /\ pending = <<>>
  /\ due = <<>>
  /\ viewRaf = NullRaf
  /\ stack = <<>>
  /\ fired = Nothing
  /\ frameUpdated = {}

AddEmitter(rate, life) ==
  /\ Len(unit.emitters) < MaxEmitters
  /\ unit' = [unit EXCEPT !.emitters = Append(@, NewParticleEmitter(rate, life))]
  /\ UNCHANGED <<anim, view>> /\ ManagerIdle

ParticlesUpdate(deltaTime) ==
  /\ unit' = ParticleSystemUpdate(unit, deltaTime)
  /\ UNCHANGED <<anim, view>> /\ ManagerIdle

NextParticles ==
  \/ \E rate \in {Frac(1, 2), Whole(3)}, life \in {2, 3} : AddEmitter(rate, life)
  \/ \E deltaTime \in {0, 1, 2} : ParticlesUpdate(deltaTime)

SpecParticles == InitParticles /\ [][NextParticles]_vars

\* --------------------------------------------------------- RetryHandler
\* One call of RetryHandler.retry(fn, options): unit is
\*   options     what the caller passed (0 for a field left out or zero)
\*   attempt     the loop variable
\*   calls       the number of calls of fn so far
\*   lastError   the error of the last failed call, named by the number of
\*               that call, 0 before any
\*   state       of the promise retry returned: "pending", "fulfilled"
\*               with value (the result of the call of that number), or
\*               "rejected" with lastError
\*   refused     shouldRetry has returned false
\*   waitTime    the time of the last sleep
MaxRetries == 2
DEFAULT_MAX_RETRIES == 3
DEFAULT_DELAY == 1000
DEFAULT_BACKOFF == 2

NewRetry(options) ==
  [constructed |-> TRUE, options |-> options, attempt |-> 0, calls |-> 0, lastError |-> 0,
   state |-> "pending", value |-> 0, refused |-> FALSE, waitTime |-> 0]

\* One turn of the for loop (lines 299-312): fn is called and returns
\* (ok) or throws; should is what shouldRetry answers if it is asked.
retry(r, ok, should) ==
  LET maxRetries == IF r.options.maxRetries = 0 THEN DEFAULT_MAX_RETRIES ELSE r.options.maxRetries
      delay == IF r.options.delay = 0 THEN DEFAULT_DELAY ELSE r.options.delay
      backoff == IF r.options.backoff = 0 THEN DEFAULT_BACKOFF ELSE r.options.backoff
      called == [r EXCEPT !.calls = @ + 1]
      failed == [called EXCEPT !.lastError = called.calls]
  IN  IF ok
        THEN [called EXCEPT !.state = "fulfilled", !.value = called.calls]
      ELSE IF r.attempt = maxRetries
        THEN [failed EXCEPT !.state = "rejected"]
      ELSE IF ~should
        THEN [failed EXCEPT !.state = "rejected", !.refused = TRUE]
      ELSE [failed EXCEPT !.waitTime = delay * backoff ^ r.attempt, !.attempt = @ + 1]

InitRetry ==
  /\ unit \in {NewRetry([maxRetries |-> m, delay |-> d, backoff |-> b]) :
                 m \in 0..MaxRetries, d \in {0, 100, 250}, b \in {0, 3}}
  /\ anim = NoAnim
  /\ view = NoView
  /\ now = 0
  /\ insts = <<>>
  /\ animations = <<>>
  /\ isRunning = FALSE
  /\ rafId = NullRaf
  /\ pending = <<>>
  /\ due = <<>>
  /\ viewRaf = NullRaf
  /\ stack = <<>>
  /\ fired = Nothing
  /\ frameUpdated = {}

\* The next call of fn and what follows it, up to the sleep
RetryAttempt(ok, should) ==
  /\ unit.state = "pending"
  /\ unit' = retry(unit, ok, should)
  /\ UNCHANGED <<anim, view>> /\ ManagerIdle

NextRetry == \E ok \in BOOLEAN, should \in BOOLEAN : RetryAttempt(ok, should)

SpecRetry == InitRetry /\ [][NextRetry]_vars

\* ------------------------------------------------------- ProjectManager
\* A ProjectManager and the calls of its async methods under way: unit is
\*   projects           the ids of this.projects
\*   currentProjectId   "null" or an id
\*   stored             the ids of the projects the storage holds
\*   calls              the calls made so far: the method, its project and
\*                      where the call stands: at the await of
\*                      "saveActivities", "saveProject" or "deleteProject",
\*                      or settled, "fulfilled" or "rejected"
\*   deleted            the ids whose deleteProject has been fulfilled
\* The storage carries out what it is asked and its promises are
\* fulfilled, each at a moment of its own.
MaxCalls == 3

NewProjectManager(ids) ==
  [constructed |-> TRUE, projects |-> ids, currentProjectId |-> "null", stored |-> ids,
   calls |-> <<>>, deleted |-> {}]

getProject(m, projectId) == IF projectId \in m.projects THEN projectId ELSE "null"

getCurrentProject(m) ==
  IF m.currentProjectId = "null" THEN "null" ELSE getProject(m, m.currentProjectId)

\* setCurrentProject(projectId) of a project of the map (any other id throws)
setCurrentProject(m, projectId) == [m EXCEPT !.currentProjectId = projectId]

\* A method's body up to its first await, for the call k: the project is
\* looked up, and the storage is asked.
Enter(m, k, await) ==
  IF getProject(m, m.calls[k].projectId) = "null"
    THEN [m EXCEPT !.calls[k].at = "rejected"]
    ELSE [m EXCEPT !.calls[k].at = await]

\* updateProject, deleteProject and addActivity after the await the call
\* k stands at
Continue(m, k) ==
  LET call == m.calls[k]
  IN  CASE call.at = "saveActivities" ->
             \* addActivity: await this.updateProject(...), which begins at once
             Enter(m, k, "saveProject")
        [] call.at = "saveProject" ->
             [m EXCEPT !.stored = @ \cup {call.projectId},
                       !.projects = @ \cup {call.projectId},
                       !.calls[k].at = "fulfilled"]
        [] call.at = "deleteProject" ->
             [m EXCEPT !.stored = @ \ {call.projectId},
                       !.projects = @ \ {call.projectId},
                       !.currentProjectId = IF @ = call.projectId THEN "null" ELSE @,
                       !.calls[k].at = "fulfilled",
                       !.deleted = @ \cup {call.projectId}]
        [] OTHER -> m

InitManager ==
  /\ unit = NewProjectManager({"p1", "p2"})
  /\ anim = NoAnim
  /\ view = NoView
  /\ now = 0
  /\ insts = <<>>
  /\ animations = <<>>
  /\ isRunning = FALSE
  /\ rafId = NullRaf
  /\ pending = <<>>
  /\ due = <<>>
  /\ viewRaf = NullRaf
  /\ stack = <<>>
  /\ fired = Nothing
  /\ frameUpdated = {}

\* A caller calls updateProject, deleteProject or addActivity
CallManager(method, projectId) ==
  /\ Len(unit.calls) < MaxCalls
  /\ LET k == Len(unit.calls) + 1
         m == [unit EXCEPT !.calls = Append(@, [method |-> method, projectId |-> projectId,
                                                at |-> "called"])]
     IN  unit' = Enter(m, k, CASE method = "updateProject" -> "saveProject"
                               [] method = "deleteProject" -> "deleteProject"
                               [] method = "addActivity" -> "saveActivities")
  /\ UNCHANGED <<anim, view>> /\ ManagerIdle

SetCurrentProject(projectId) ==
  /\ projectId \in unit.projects
  /\ unit.currentProjectId # projectId
  /\ unit' = setCurrentProject(unit, projectId)
  /\ UNCHANGED <<anim, view>> /\ ManagerIdle

\* The promise the call k awaits is fulfilled and the call goes on
Settle(k) ==
  /\ unit.calls[k].at \in {"saveActivities", "saveProject", "deleteProject"}
  /\ unit' = Continue(unit, k)
  /\ UNCHANGED <<anim, view>> /\ ManagerIdle

NextManager ==
  \/ \E method \in {"updateProject", "deleteProject", "addActivity"}, projectId \in {"p1", "p2"} :
       CallManager(method, projectId)
  \/ \E projectId \in {"p1", "p2"} : SetCurrentProject(projectId)
  \/ \E k \in 1..Len(unit.calls) : Settle(k)

SpecManager == InitManager /\ [][NextManager]_vars

\* ------------------------------------------- GalaxyView: the project map
\* A GalaxyView seen through addProject and removeProject: view is
\*   projects     the ids of this.projects
\*   animations   the manager's registry in Map order; an entry is the
\*                name, the project id in the closure of onComplete, the
\*                duration and elapsed, which is Date.now() - startTime
\*                (all that update() reads of the two), kept up to duration
\*   isRunning    the manager's flag
\*   ops          the number of calls so far
\*   requested    the ids removeProject has been called with
\* AnimationManager.animate(name, {duration, onComplete}) in this view
ProjectAnimate(v, name, id, duration) ==
  LET kept == SelectSeq(v.animations, LAMBDA a : a.name # name)
  IN  [v EXCEPT !.animations = Append(kept, [name |-> name, id |-> id, duration |-> duration,
                                             elapsed |-> 0]),
                !.isRunning = TRUE]

\* addProject of a valid project whose id is new (any other throws)
addProject(v, id) ==
  ProjectAnimate([v EXCEPT !.projects = @ \cup {id}], "addProject", id, 1000)

\* removeProject of a project of the map (any other id throws)
removeProject(v, projectId) == ProjectAnimate(v, "removeProject", projectId, 500)

\* AnimationManager.update() dt after the last one: an animation whose time
\* is over completes, 'removeProject' with  this.projects.delete(projectId)
ProjectUpdate(v, dt) ==
  LET timed == [k \in 1..Len(v.animations) |->
                  [v.animations[k] EXCEPT !.elapsed = IF @ + dt > v.animations[k].duration
                                                        THEN v.animations[k].duration ELSE @ + dt]]
      over(a) == a.elapsed >= a.duration
      deleted == {timed[k].id : k \in {j \in 1..Len(timed) :
                                         over(timed[j]) /\ timed[j].name = "removeProject"}}
      left == SelectSeq(timed, LAMBDA a : ~over(a))
  IN  IF ~v.isRunning
        THEN v
        ELSE [v EXCEPT !.projects = @ \ deleted, !.animations = left, !.isRunning = left # <<>>]

InitProjects ==
  /\ view = [constructed |-> TRUE, projects |-> {"p1", "p2"}, animations |-> <<>>,
             isRunning |-> FALSE, ops |-> 0, requested |-> {}]
  /\ anim = NoAnim
  /\ unit = NoUnit
  /\ now = 0
  /\ insts = <<>>
  /\ animations = <<>>
  /\ isRunning = FALSE
  /\ rafId = NullRaf
  /\ pending = <<>>
  /\ due = <<>>
  /\ viewRaf = NullRaf
  /\ stack = <<>>
  /\ fired = Nothing
  /\ frameUpdated = {}

AddProject(id) ==
  /\ view.ops < MaxOps
  /\ id \notin view.projects
  /\ view' = [addProject(view, id) EXCEPT !.ops = @ + 1]
  /\ UNCHANGED <<anim, unit>> /\ ManagerIdle

RemoveProject(id) ==
  /\ view.ops < MaxOps
  /\ id \in view.projects
  /\ view' = [removeProject(view, id) EXCEPT !.ops = @ + 1, !.requested = @ \cup {id}]
  /\ UNCHANGED <<anim, unit>> /\ ManagerIdle

\* The next frame of the render loop, while an animation runs
ProjectFrame ==
  /\ view.isRunning
  /\ view' = ProjectUpdate(view, FrameTime)
  /\ UNCHANGED <<anim, unit>> /\ ManagerIdle

NextProjects ==
  \/ \E id \in {"p1", "p2", "p3"} : AddProject(id)
  \/ \E id \in {"p1", "p2", "p3"} : RemoveProject(id)
  \/ ProjectFrame

\* The page delivers the frames the render loop asks for.
SpecProjects == InitProjects /\ [][NextProjects]_vars /\ WF_vars(ProjectFrame)

\* ------------------------------------------------------- FileConstellation
FILE_BASE_SIZE == 8

\* Math.log10 of a power of ten
Log10(n) == CHOOSE k \in 0..9 : 10 ^ k = n

getFileSize(file) ==
  RMul(Whole(FILE_BASE_SIZE), RAdd(Whole(1), Frac(Log10(file.size + 1), 10)))

\* The files of a constellation in the order of the Map: a file at its full
\* scale, one half way into its 'add' animation that overlaps it, and one
\* whose 'add' animation has just set its scale to 0.
Files ==
  << [file |-> [id |-> "f1", size |-> 9], x |-> Whole(198), y |-> Whole(26), scale |-> Whole(1)],
     [file |-> [id |-> "f2", size |-> 99], x |-> Whole(196), y |-> Whole(28), scale |-> Frac(1, 2)],
     [file |-> [id |-> "f3", size |-> 0], x |-> Whole(200), y |-> Whole(0), scale |-> Whole(1)],
     [file |-> [id |-> "f4", size |-> 0], x |-> Whole(-300), y |-> Whole(-400), scale |-> Whole(0)] >>

\* for (const [id, fileViz] of this.files): the id of the file returned
RECURSIVE getFileAtPosition(_, _)
getFileAtPosition(files, position) ==
  IF files = <<>>
    THEN "null"
    ELSE IF Within(position, Point(Head(files).x, Head(files).y),
                   RMul(getFileSize(Head(files).file), Head(files).scale))
           THEN Head(files).file.id
           ELSE getFileAtPosition(Tail(files), position)

\* A FileConstellation seen through its files and its selection: view is
\*   files          the ids of this.files
\*   selectedFiles  this.selectedFiles
\*   animations     the 'remove-<id>' animations of the manager, of each
\*                  the id and elapsed, Date.now() - startTime, kept up to
\*                  the duration of 500 ms
\*   event          the fileSelected event the last call or event
\*                  dispatched, if it dispatched one, and the ids it lists
\* The 'add-<id>' animations write scale and opacity of a node, which are
\* not part of this view; a click is given by the file getFileAtPosition
\* returns for it ("null" for none), which may be any file of the map.
NewConstellation(ids) ==
  [constructed |-> TRUE, files |-> ids, selectedFiles |-> {}, animations |-> <<>>,
   event |-> [dispatched |-> FALSE, files |-> {}]]

fileSelected(v, ids) == [v EXCEPT !.event = [dispatched |-> TRUE, files |-> ids]]

\* addFiles(files), of files that have an id (any other throws)
addFiles(v, files) == [v EXCEPT !.files = @ \cup Range(files)]

\* removeFiles(fileIds): animate('remove-<id>', {duration: 500, onComplete})
\* for each id of the map, which replaces the one under the same name
removeFiles(v, fileIds) ==
  LET RECURSIVE forEach(_, _)
      forEach(w, k) ==
        IF k > Len(fileIds) THEN w
        ELSE IF fileIds[k] \notin w.files THEN forEach(w, k + 1)
        ELSE forEach([w EXCEPT !.animations =
                        Append(SelectSeq(@, LAMBDA a : a.id # fileIds[k]),
                               [id |-> fileIds[k], elapsed |-> 0])], k + 1)
  IN  forEach(v, 1)

\* handleMouseDown with file the file at the position of the event
fileMouseDown(v, file, ctrlKey) ==
  IF file # "null"
    THEN LET selected == IF ctrlKey
                           THEN IF file \in v.selectedFiles
                                  THEN v.selectedFiles \ {file}
                                  ELSE v.selectedFiles \cup {file}
                           ELSE {file}
         IN  fileSelected([v EXCEPT !.selectedFiles = selected], selected)
    ELSE fileSelected([v EXCEPT !.selectedFiles = {}], {})

\* handleKeyDown: 'a' with ctrl or meta, and 'Escape'
fileKeyDown(v, key, ctrlKey) ==
  CASE key = "a" /\ ctrlKey ->
         fileSelected([v EXCEPT !.selectedFiles = @ \cup v.files], v.selectedFiles \cup v.files)
    [] key = "Escape" -> fileSelected([v EXCEPT !.selectedFiles = {}], {})
    [] OTHER -> v

\* animationManager.update() dt after the last one: a removal whose time is
\* over completes with  this.files.delete(id)
ConstellationUpdate(v, dt) ==
  LET timed == [k \in 1..Len(v.animations) |->
                  [v.animations[k] EXCEPT !.elapsed = IF @ + dt > 500 THEN 500 ELSE @ + dt]]
      deleted == {timed[k].id : k \in {j \in 1..Len(timed) : timed[j].elapsed >= 500}}
  IN  [v EXCEPT !.files = @ \ deleted,
                !.animations = SelectSeq(timed, LAMBDA a : a.elapsed < 500)]

InitConstellation ==
  /\ view = NewConstellation({"f1", "f2"})
  /\ anim = NoAnim
  /\ unit = NoUnit
  /\ now = 0
  /\ insts = <<>>
  /\ animations = <<>>
  /\ isRunning = FALSE
  /\ rafId = NullRaf
  /\ pending = <<>>
  /\ due = <<>>
  /\ viewRaf = NullRaf
  /\ stack = <<>>
  /\ fired = Nothing
  /\ frameUpdated = {}

\* A call, an event or a frame: v is the view after it.  What it starts
\* from is Calm, the view with no event dispatched yet.
Calm == [view EXCEPT !.event = [dispatched |-> FALSE, files |-> {}]]

ConstellationStep(v) ==
  /\ view' = v
  /\ UNCHANGED <<anim, unit>> /\ ManagerIdle

NextConstellation ==
  \/ \E files \in {<<"f1">>, <<"f3">>, <<"f2", "f3">>} : ConstellationStep(addFiles(Calm, files))
  \/ \E fileIds \in {<<"f1">>, <<"f3">>, <<"f2", "f1">>} :
       ConstellationStep(removeFiles(Calm, fileIds))
  \/ \E file \in view.files \cup {"null"}, ctrlKey \in BOOLEAN :
       ConstellationStep(fileMouseDown(Calm, file, ctrlKey))
  \/ \E key \in {"a", "Escape"} : ConstellationStep(fileKeyDown(Calm, key, TRUE))
  \/ view.animations # <<>> /\ ConstellationStep(ConstellationUpdate(Calm, FrameTime))

SpecConstellation == InitConstellation /\ [][NextConstellation]_vars

\* ---------------------------------------------------------------- claims
Registered == MapValues(animations)

\* The manager's own frame callbacks that have been requested and have not run.
ManagerFrames == (Range(pending) \cup Range(due)) \ {viewRaf}

\* C1: a callback that throws during a tick is caught: the tick goes on
\* with the other animations, and the animation that threw is no longer
\* registered.
C1_ThrowIsCaught ==
  fired.threw => stack # <<>> /\ fired.inst \notin Registered

\* No two entries of the registry have the same name.
UniqueKeys ==
  \A j, k \in 1..Len(animations) :
    animations[j].key = animations[k].key /\ animations[j].key # NoKey => j = k

\* C2: the registry never holds two animations under one name, and when
\* animate(name, ...) constructs an animation under a name that is taken,
\* the name then maps to the new instance only, the new instance runs, and
\* the instance the name mapped to is stopped and no longer registered.
C2_OnePerName ==
  [][/\ UniqueKeys'
     /\ Len(insts') > Len(insts) =>
          LET new == Len(insts')
              n == CHOOSE k \in Names : MapGet(animations', k) = new
              old == MapGet(animations, n)
          IN  /\ \E k \in Names : MapGet(animations', k) = new
              /\ insts'[new].isRunning
              /\ old # NoInst =>
                    /\ ~insts'[old].isRunning
                    /\ old \notin MapValues(animations')]_vars

\* Two animate() calls with one name have been made and no other.
C2_Witness ==
  /\ Len(insts) = 2
  /\ insts[1].ended = "replaced" /\ ~insts[1].isRunning
  /\ MapSize(animations) = 1 /\ MapValues(animations) = {2}
  /\ insts[2].isRunning

\* C3: the completion callback of an animation that animate() has replaced
\* is not invoked.
C3_ReplacedNeverCompletes ==
  [][fired'.cb = "onComplete" => insts[fired'.inst].ended # "replaced"]_vars

\* C4: the completion callback of an animation that stop(name), stopAll()
\* or its own stop() has stopped is not invoked.
C4_StoppedNeverCompletes ==
  [][fired'.cb = "onComplete" => insts[fired'.inst].ended \notin {"stopped", "halted"}]_vars

\* C5: an animation that has completed or has been stopped is neither
\* running nor paused again.
C5_TerminalStaysTerminal ==
  \A i \in Insts : insts[i].ended # "live" => ~insts[i].isRunning /\ ~insts[i].isPaused

\* C6: between handlers at most one frame callback of the manager is
\* pending, and none before the first animate().
C6_OneFramePending ==
  Idle => /\ Cardinality(ManagerFrames) <= 1
          /\ insts = <<>> => ManagerFrames = {}

\* C7: between handlers, an animation that animate() has started and that
\* has neither completed nor been stopped is registered, and a registry that
\* holds an animation has its loop running, with a frame callback pending
\* that will update it.
C7_LoopFollowsRegistry ==
  Idle => /\ \A i \in Insts : insts[i].ended = "live" => i \in Registered
          /\ MapSize(animations) > 0 => isRunning /\ ManagerFrames # {}

\* C8: no animation's update callback runs twice in one frame.
C8_OncePerFrame ==
  [][(fired'.cb = "onUpdate" /\ InFrame) => fired'.inst \notin frameUpdated]_vars

\* C9: no callback of an animation that destroy() has stopped is invoked.
C9_DestroyedIsSilent ==
  [][fired'.cb # "none" => insts[fired'.inst].ended # "destroyed"]_vars

\* C10: the update callback of an animation that stop(name) or a replacing
\* animate(name, ...) has stopped is not invoked.
C10_CancelledIsNotUpdated ==
  [][fired'.cb = "onUpdate" => insts[fired'.inst].ended \notin {"stopped", "replaced"}]_vars

\* A tick of a later handler than the one that stopped or replaced an
\* animation (the registry has no emptied entry, so this handler has
\* unregistered nothing) has invoked the update callback of another one.
C10_Witness ==
  /\ fired.cb = "onUpdate" /\ InFrame
  /\ \A k \in 1..Len(animations) : animations[k].key # NoKey
  /\ \E j \in Insts : j # fired.inst /\ insts[j].ended \in {"stopped", "replaced"}

\* C11: no animation with a duration <= 0 is registered, and no callback of
\* one is invoked: constructing it fails.
C11_DurationIsValidated ==
  /\ \A i \in Registered : insts[i].duration > 0
  /\ fired.cb # "none" => insts[fired.inst].duration > 0

\* from and to have the same shape: the same kind of value, arrays of the
\* same length, objects with the same keys, all the way down.
RECURSIVE SameShape(_, _)
SameShape(x, y) ==
  /\ x.tag = y.tag
  /\ x.tag = "array" =>
       /\ Len(x.v) = Len(y.v)
       /\ \A k \in 1..Len(x.v) : SameShape(x.v[k], y.v[k])
  /\ x.tag = "object" =>
       /\ DOMAIN x.v = DOMAIN y.v
       /\ \A key \in DOMAIN x.v : SameShape(x.v[key], y.v[key])

\* C12: an animation whose from and to do not have the same shape delivers
\* nothing to its update callback: constructing it fails.
C12_ShapesAreValidated ==
  anim.calls # <<>> => SameShape(anim.self.from, anim.self.to)

\* C13: the elapsed time a running animation sees is the time it has run
\* unpaused, whatever pauses and resumes came between; a paused animation
\* has recorded that time, its update() invokes no callback, changes
\* nothing and returns true, and its pause() changes nothing.
C13_PauseKeepsElapsed ==
  LET a == anim.self
  IN  /\ Active(a) => anim.clock - a.startTime = anim.ran
      /\ a.isRunning /\ a.isPaused =>
            /\ a.pausedTime = anim.ran
            /\ anim.calls = <<>>
            /\ AnimationUpdate(a, anim.clock) = [self |-> a, calls |-> <<>>, ret |-> TRUE]
            /\ AnimationPause(a, anim.clock) = a

\* An animation started at 0, paused at 250 and resumed at 750 is updated
\* at 1000, having run for 500.
C13_Witness ==
  /\ Active(anim.self) /\ anim.self.ended = "live"
  /\ anim.self.pausedTime = 250 /\ anim.self.startTime = 500
  /\ anim.clock = 1000 /\ anim.ran = 500
  /\ anim.calls # <<>>

C17_ZoomToPoint ==
  [][(view'.ops = view.ops + 1 /\ view'.last.op = "wheel") =>
       LET client == Point(Whole(view'.last.arg[2].x), Whole(view'.last.arg[2].y))
       IN  /\ view'.camera.v["zoom"].v # view.camera.v["zoom"].v =>
                screenToWorld(view'.camera, client) = screenToWorld(view.camera, client)
           /\ (/\ client = Point(Frac(Width, 2), Frac(Height, 2))
               /\ view.camera.v["x"].v = Whole(0) /\ view.camera.v["y"].v = Whole(0)) =>
                /\ view'.camera.v["x"].v = Whole(0) /\ view'.camera.v["y"].v = Whole(0)]_vars

\* The wheel has zoomed in twice away from the centre of the viewport, and
\* the camera has moved towards the pointer.
C17_Witness ==
  /\ view.constructed
  /\ view.last.op = "wheel" /\ view.last.arg = <<-100, Point(620, 190)>>
  /\ view.camera.v["zoom"].v = Frac(121, 100)
  /\ view.camera.v["x"].v # Whole(0) /\ view.camera.v["y"].v # Whole(0)

\* C18: the conversion of a pointer position to a world position is the
\* inverse of the transform render() draws with, for every camera the view
\* comes to have, rotated or not: worldToScreen puts a world point where
\* render() draws it, and screenToWorld takes it back from there.
C18_PointerInvertsRender ==
  view.constructed =>
    \A k \in 1..Len(Projects) :
      LET p == Projects[k].at
      IN  /\ worldToScreen(view.camera, p) = render(view.camera, p)
          /\ screenToWorld(view.camera, render(view.camera, p)) = p
          /\ screenToWorld(view.camera, worldToScreen(view.camera, p)) = p

\* C19: the hit test at the world position of the pointer returns null
\* exactly when no entity is within its radius of the position and the
\* first such entity in iteration order otherwise, for the projects of a
\* galaxy and the files of a constellation; and the position of an
\* entity's centre always matches.
C19_HitTest ==
  [][(view'.ops = view.ops + 1 /\ view'.last.op = "mousemove" /\ ~view.mouse.down) =>
       LET client == view'.last.arg[1]
           position == screenToWorld(view.camera, Point(Whole(client.x), Whole(client.y)))
           file == getFileAtPosition(Files, position)
           ProjectHits == {k \in 1..Len(Projects) :
                             Within(position, Projects[k].at, Whole(getProjectSize(Projects[k])))}
           FileHits == {k \in 1..Len(Files) :
                          Within(position, Point(Files[k].x, Files[k].y),
                                 RMul(getFileSize(Files[k].file), Files[k].scale))}
           First(S) == CHOOSE k \in S : \A j \in S : k <= j
       IN  /\ view'.hoveredProject = getProjectAtPosition(Projects, position)
           /\ view'.hoveredProject = "null" <=> ProjectHits = {}
           /\ ProjectHits # {} => view'.hoveredProject = Projects[First(ProjectHits)].id
           /\ file = "null" <=> FileHits = {}
           /\ FileHits # {} => file = Files[First(FileHits)].file.id
           /\ \A k \in 1..Len(Projects) :
                 getProjectAtPosition(Projects, Projects[k].at) # "null"
           /\ \A k \in 1..Len(Files) :
                 getFileAtPosition(Files, Point(Files[k].x, Files[k].y)) # "null"]_vars

\* The pointer is over the place where the first two projects overlap, and
\* the first of them is the one hovered; the first two files overlap there
\* too.
C19_Witness ==
  /\ view.constructed
  /\ view.last.op = "mousemove" /\ ~view.mouse.down
  /\ view.hoveredProject = "p1"
  /\ LET client == view.last.arg[1]
         position == screenToWorld(view.camera, Point(Whole(client.x), Whole(client.y)))
     IN  /\ Within(position, Projects[2].at, Whole(getProjectSize(Projects[2])))
         /\ getFileAtPosition(Files, position) = "f1"
         /\ getFileAtPosition(Tail(Files), position) = "f2"

\* C20: the camera getCameraState() returns has the four fields x, y, zoom
\* and rotation, each a number, and giving it back to setCameraState leaves
\* the camera as it is: at every moment, an animated focusProject under
\* way or over and pointer input included.
C20_CameraSnapshot ==
  view.constructed =>
    LET snapshot == getCameraState(view.camera)
    IN  /\ Keys(snapshot) = {"x", "y", "zoom", "rotation"}
        /\ \A key \in Keys(snapshot) : snapshot.v[key].tag = "number"
        /\ setCameraState(view.camera, snapshot) = view.camera

\* C22: an animation that is registered stays registered for as long as it
\* has neither completed nor been stopped or replaced itself: no step takes
\* it out of the registry and leaves it running, not the end of the tick
\* in which the completion callback of its predecessor registered it either.
C22_RegisteredUntilEnded ==
  [][\A i \in Registered :
       (insts[i].ended = "live" /\ insts'[i].ended = "live") => i \in MapValues(animations')]_vars

\* C23: with frames delivered, the clock advancing and no callback throwing,
\* every registered animation whose duration fits in the time that is left
\* comes to an end that is not a silent loss: its completion callback is
\* invoked, unless it is stopped, replaced or destroyed first.
C23_EveryAnimationCompletes ==
  ([](~fired.threw)) =>
    \A i \in 1..MaxInst :
      (/\ i <= Len(insts) /\ i \in Registered
       /\ insts[i].ended = "live"
       /\ insts[i].startTime + insts[i].duration <= LastTime)
      ~> (\/ fired.cb = "onComplete" /\ fired.inst = i
          \/ i <= Len(insts) /\ insts[i].ended \in {"stopped", "replaced", "halted", "destroyed"})

\* C28: a view's destroy() stops its render loop: when destroy() returns,
\* the page owes the view's frame callback (render(), then
\* animationManager.update()) no frame any more.
C28_DestroyStopsRenderLoop ==
  [][Destroy => \A k \in 1..Len(pending') : pending'[k] # viewRaf']_vars

\* C25: when focusProject(id, false) has returned, the camera's x and y are
\* the world coordinates of the project, so that worldToScreen of the
\* project's position is the centre of the viewport, and the zoom is 2.
C25_FocusCentresProject ==
  (view.constructed /\ view.last.op = "focusProject" /\ ~view.last.arg[2]) =>
    LET at == ProjectsGet(view.last.arg[1]).at
        Same(a, b) == RLeq(a, b) /\ RLeq(b, a)
        screen == worldToScreen(view.camera, at)
    IN  /\ Same(view.camera.v["x"].v, at.x)
        /\ Same(view.camera.v["y"].v, at.y)
        /\ Same(view.camera.v["zoom"].v, Whole(2))
        /\ Same(screen.x, Frac(Width, 2))
        /\ Same(screen.y, Frac(Height, 2))

\* C24: every removeProject(id) of a project of the map is followed, some
\* time later, by a map without that project, whatever addProject and
\* removeProject calls for other projects come before its animation is over.
C24_RemovedInTheEnd ==
  \A id \in {"p1", "p2", "p3"} :
    (view.constructed /\ id \in view.requested) ~> (id \notin view.projects)

\* C21: a spring with positive stiffness, damping and mass, stepped by
\* update(dt) with positive dt, converges: from some update on, every
\* update returns false with the value the target and the velocity zero.
C21_SpringConverges ==
  <>[](/\ anim.returned = "false"
       /\ anim.value = anim.target
       /\ anim.velocity = Whole(0))

\* C26: after every ParticleSystem.update(dt), with any emitters, rates and
\* dt >= 0, the particle count is at most maxParticles.
C26_ParticleCountBounded ==
  unit.constructed => Len(unit.particles) <= unit.maxParticles

\* C30: retry calls fn at most maxRetries + 1 times (once when maxRetries
\* is 0); it is fulfilled with the result of the first call that succeeds
\* and calls fn no more; it is rejected with the error of the last call,
\* at once when shouldRetry returns false.
C30_RetryAtMostMaxRetries ==
  unit.constructed =>
    /\ unit.calls <= unit.options.maxRetries + 1
    /\ unit.state = "fulfilled" => unit.value = unit.calls
    /\ unit.state = "rejected" => unit.lastError = unit.calls
    /\ unit.refused => unit.state = "rejected"

\* C29: once deleteProject(id) has been fulfilled, getProject(id) is null
\* and stays null and the current project is not that project, whatever
\* updateProject and addActivity calls on it were under way.
C29_DeletedStaysDeleted ==
  unit.constructed =>
    \A id \in unit.deleted : getProject(unit, id) = "null" /\ getCurrentProject(unit) # id

\* C27: every id of selectedFiles is the id of a file of the files map, and
\* a fileSelected event lists no id that is not: after any addFiles,
\* removeFiles, click, select-all, Escape and frame.
C27_SelectionWithinFiles ==
  view.constructed =>
    /\ view.selectedFiles \subseteq view.files
    /\ view.event.dispatched => view.event.files \subseteq view.files
====
